---- MODULE Spec2Model ----
(***************************************************************************)
(* ModSecurity back end: the landing-record batch processor, the cron      *)
(* scheduler that drives it, and the signed WAF toggle client.             *)
(*                                                                         *)
(* Every action is one database or network operation of the source         *)
(* together with the synchronous code that follows it up to the next       *)
(* await.                                                                  *)
(***************************************************************************)
EXTENDS Integers, Sequences, FiniteSets, TLC

(***************************************************************************)
(* Bounds                                                                  *)
(***************************************************************************)
NumRecords == 2      \* landing records in the store
MaxBatch == 2        \* largest batchSize a caller passes
MaxFaults == 1       \* database operations that may throw
MaxOrphans == 1      \* timers left installed by a repeated start()
MaxFetch == 2        \* HTTP requests sent to the agent
MaxStrLen == 6       \* characters of a string given to the sanitizer
MaxScore == 10       \* largest severity score of a message
MaxItems == 2        \* domains in one bulk update

Ids == 1..NumRecords
MissingId == 0       \* an id no landing record has
BatchSizes == 1..MaxBatch
BATCH_SIZE == MaxBatch               \* the scheduler's configured batch size

CronSlots == {"cron1", "cron2"}      \* invocations of the tick callback
ManualCallers == {"manual"}          \* POST /process, POST /process/:id, scripts
Callers == CronSlots \cup ManualCallers

Domains == {"a.com", "b.com"}
PemInputs == {"absent", "invalid", "valid"}
\* What the agent call meets: a 2xx answer with status "OK", a non-2xx
\* answer, a 2xx answer with another status, or no answer at all.
AgentReplies == {"ok", "http500", "statusError", "networkError"}
\* What the request to the toggle route looks like to its checks.
RequestKinds == {"valid", "noToken", "noDomain", "badEnabled", "noOrganization",
                 "foreignDomain", "notAdmin"}
\* No request body was sent to the agent.
NoBody == [domain |-> "none", enabled |-> FALSE, signature |-> <<>>]
NoRequest == [kind |-> "none", domain |-> "none", enabled |-> FALSE, reply |-> "none",
              body |-> NoBody]
\* What the request to the bulk route looks like to its checks.
BulkKinds == {"valid", "noToken", "noUser", "noDomains", "noOrganization",
              "notAdmin", "badItem", "foreignDomain"}
\* The bulk route is not handling a request.
NoBulk == [pc |-> "idle", items |-> <<>>, idx |-> 0, results |-> <<>>, response |-> 0]

VARIABLES
    landing,      \* landing[id] = processed flag of the modsec_landing row
    bad,          \* rows whose payload the normalizer cannot parse
    logCount,     \* logCount[id] = number of Log rows created from the row
    markFails,    \* history: failed mark-as-processed updates per row
    raced,        \* history: row was read unprocessed while another caller held it
    faults,       \* database operations that have thrown so far
    run,          \* per caller: the locals of processAll / processModsecLandingRecord
    isRunning,    \* ModsecCronScheduler.isRunning
    task,         \* ModsecCronScheduler.task # null
    orphans,      \* timers still installed that this.task no longer references
    pem,          \* WAF_AGENT_PRIVATE_KEY as configured
    privateKeyObject, \* WAFAgentService.privateKeyObject # null
    wafStatus,    \* DomainWAFStatus rows: "none", "on" or "off" per domain
    agentState,   \* enforcement at the remote agent per domain
    fetchCalls,   \* HTTP requests sent to the agent
    lastRequest,  \* the request the toggle route answered last
    lastToggle,   \* what toggleWAF returned to it
    lastResponse, \* HTTP status of that answer
    bulk,         \* the locals of the bulk route and the status it answered
    call          \* a function of the record pipeline applied to an argument

batchVars == <<landing, bad, logCount, markFails, raced, faults, run>>
cronVars == <<isRunning, task, orphans>>
wafVars == <<pem, privateKeyObject, wafStatus, agentState, fetchCalls, lastRequest, lastToggle, lastResponse, bulk>>
vars == <<landing, bad, logCount, markFails, raced, faults, run,
          isRunning, task, orphans,
          pem, privateKeyObject, wafStatus, agentState, fetchCalls, lastRequest,
          lastToggle, lastResponse, bulk, call>>

Min(a, b) == IF a < b THEN a ELSE b

(***************************************************************************)
(* Batch processor                                                         *)
(***************************************************************************)
Terminal == {"idle", "done", "threw", "noRecords", "countFailed", "skipped"}

IdleRun == [mode |-> "none", pc |-> "idle", batchSize |-> 0, skip |-> 0,
            records |-> <<>>, idx |-> 0, backlog |-> 0, fetched |-> 0,
            processed |-> 0, failed |-> 0, errors |-> <<>>, result |-> "none"]

Active(c) == run[c].pc \notin Terminal

\* The record a caller is working on.
Cur(c) == run[c].records[run[c].idx]

\* where: { processed: false }, orderBy: { time: "asc" }
Unprocessed == SelectSeq([i \in 1..NumRecords |-> i], LAMBDA r : ~landing[r])

\* findMany reading from the first unprocessed record whatever the offset.
findManyNoSkip(skip, take) ==
    SubSeq(Unprocessed, 1, Min(take, Len(Unprocessed)))

\* prisma.modsecLanding.findMany({ where, take, skip, orderBy })
findMany(skip, take) ==
    SubSeq(Unprocessed, skip + 1, Min(skip + take, Len(Unprocessed)))

\* AfterResult with a failed record ending the run.
AfterResultAbort(rc, ok, id, err) ==
    IF rc.mode = "single"
    THEN [rc EXCEPT !.pc = "done", !.result = IF ok THEN "success" ELSE err,
                    !.records = <<>>, !.idx = 0]
    ELSE IF ~ok
    THEN [rc EXCEPT !.failed = @ + 1,
                    !.errors = Append(@, [id |-> id, error |-> err]),
                    !.pc = "done", !.records = <<>>, !.idx = 0]
    ELSE IF rc.idx < Len(rc.records)
    THEN [rc EXCEPT !.processed = @ + 1, !.idx = @ + 1, !.pc = "findUnique"]
    ELSE [rc EXCEPT !.processed = @ + 1, !.skip = @ + rc.batchSize,
                    !.pc = IF Len(rc.records) = rc.batchSize
                           THEN "findMany" ELSE "done",
                    !.records = <<>>, !.idx = 0]

\* AfterResult with the offset staying where it is after a page.
AfterResultSameOffset(rc, ok, id, err) ==
    IF rc.mode = "single"
    THEN [rc EXCEPT !.pc = "done", !.result = IF ok THEN "success" ELSE err,
                    !.records = <<>>, !.idx = 0]
    ELSE LET r1 == IF ok THEN [rc EXCEPT !.processed = @ + 1]
                   ELSE [rc EXCEPT !.failed = @ + 1,
                                   !.errors = Append(@, [id |-> id, error |-> err])]
         IN IF rc.idx < Len(rc.records)
            THEN [r1 EXCEPT !.idx = @ + 1, !.pc = "findUnique"]
            ELSE [r1 EXCEPT !.pc = IF Len(rc.records) = rc.batchSize
                                   THEN "findMany" ELSE "done",
                            !.records = <<>>, !.idx = 0]

\* The bookkeeping of processAll after one record's result, and the
\* answer of the single-record route.
AfterResult(rc, ok, id, err) ==
    IF rc.mode = "single"
    THEN [rc EXCEPT !.pc = "done", !.result = IF ok THEN "success" ELSE err,
                    !.records = <<>>, !.idx = 0]
    ELSE LET r1 == IF ok THEN [rc EXCEPT !.processed = @ + 1]
                   ELSE [rc EXCEPT !.failed = @ + 1,
                                   !.errors = Append(@, [id |-> id, error |-> err])]
         IN IF rc.idx < Len(rc.records)
            THEN [r1 EXCEPT !.idx = @ + 1, !.pc = "findUnique"]
            ELSE [r1 EXCEPT !.skip = @ + rc.batchSize,
                            !.pc = IF Len(rc.records) = rc.batchSize
                                   THEN "findMany" ELSE "done",
                            !.records = <<>>, !.idx = 0]

\* Finally clearing the flag only when the run ended without an exception.
FinallyOnReturn(c, rc) ==
    isRunning' = IF rc.mode = "cron" /\ rc.pc \in {"done", "noRecords"}
                 THEN FALSE ELSE isRunning

\* The finally block of the tick callback runs when its run ends.
Finally(c, rc) ==
    isRunning' = IF rc.mode = "cron" /\ rc.pc \in Terminal THEN FALSE ELSE isRunning

\* What is left of a call once it has ended: the callback of a tick keeps
\* nothing, a caller of processAll keeps the returned value.
Ended(rc) ==
    IF rc.pc \notin Terminal THEN rc
    ELSE IF rc.mode = "cron" THEN [IdleRun EXCEPT !.mode = "cron", !.pc = rc.pc]
    ELSE [rc EXCEPT !.batchSize = 0, !.skip = 0]

Step(c, rc) ==
    /\ run' = [run EXCEPT ![c] = Ended(rc)]
    /\ Finally(c, rc)
    /\ UNCHANGED <<task, orphans>>
    /\ UNCHANGED <<wafVars, call>>

Throws == faults < MaxFaults

\* PostProcess taking the flag of the scheduler for the time of the run.
PostProcessFlagged(c, b) ==
    /\ c \in ManualCallers
    /\ ~Active(c)
    /\ ~isRunning
    /\ isRunning' = TRUE
    /\ run' = [run EXCEPT ![c] =
            [IdleRun EXCEPT !.mode = "batch", !.pc = "findMany", !.batchSize = b,
                            !.backlog = Len(Unprocessed)]]
    /\ UNCHANGED <<task, orphans>>
    /\ UNCHANGED <<wafVars, call>>
    /\ UNCHANGED <<landing, bad, logCount, markFails, raced, faults>>

\* POST /api/modsec/process, the scripts and the worker call processAll.
PostProcess(c, b) ==
    /\ c \in ManualCallers
    /\ ~Active(c)
    /\ Step(c, [IdleRun EXCEPT !.mode = "batch", !.pc = "findMany", !.batchSize = b,
                               !.backlog = Len(Unprocessed)])
    /\ UNCHANGED <<landing, bad, logCount, markFails, raced, faults>>

\* POST /api/modsec/process/:id calls processModsecLandingRecord.
PostProcessId(c, id) ==
    /\ c \in ManualCallers
    /\ ~Active(c)
    /\ Step(c, [IdleRun EXCEPT !.mode = "single", !.pc = "findUnique",
                               !.records = <<id>>, !.idx = 1])
    /\ UNCHANGED <<landing, bad, logCount, markFails, raced, faults>>

\* The page query of processAll; its exception is logged and rethrown.
FindMany(c) ==
    /\ run[c].pc = "findMany"
    /\ \/ /\ Throws
          /\ faults' = faults + 1
          /\ Step(c, [run[c] EXCEPT !.pc = "threw"])
       \/ /\ LET records == findMany(run[c].skip, run[c].batchSize)
             IN Step(c, IF Len(records) = 0
                        THEN [run[c] EXCEPT !.pc = "done"]
                        ELSE [run[c] EXCEPT !.pc = "findUnique",
                                            !.records = records, !.idx = 1,
                                            !.fetched = @ + Len(records)])
          /\ UNCHANGED faults
    /\ UNCHANGED <<landing, bad, logCount, markFails, raced>>

\* FindUnique with the exception of the query leaving processAll.
FindUniqueThrows(c) ==
    /\ run[c].pc = "findUnique"
    /\ LET id == Cur(c) IN
       \/ /\ Throws
          /\ faults' = faults + 1
          /\ Step(c, [run[c] EXCEPT !.pc = "threw"])
       \/ /\ UNCHANGED faults
          /\ Step(c, IF id \notin Ids
                     THEN AfterResult(run[c], FALSE, id, "ModsecLanding record not found")
                     ELSE IF landing[id]
                     THEN AfterResult(run[c], FALSE, id, "Record already processed")
                     ELSE IF id \in bad
                     THEN AfterResult(run[c], FALSE, id, "Failed to parse transaction data")
                     ELSE [run[c] EXCEPT !.pc = "create"])
    /\ raced' = IF run'[c].pc = "create"
                THEN [raced EXCEPT ![Cur(c)] = @ \/
                        \E d \in Callers \ {c} :
                            run[d].pc \in {"create", "update"} /\ Cur(d) = Cur(c)]
                ELSE raced
    /\ UNCHANGED <<landing, bad, logCount, markFails>>

\* FindUnique without the check of the processed flag.
FindUniqueNoCheck(c) ==
    /\ run[c].pc = "findUnique"
    /\ LET id == Cur(c) IN
       \/ /\ Throws
          /\ faults' = faults + 1
          /\ Step(c, AfterResult(run[c], FALSE, id, "DbError"))
       \/ /\ UNCHANGED faults
          /\ Step(c, IF id \notin Ids
                     THEN AfterResult(run[c], FALSE, id, "ModsecLanding record not found")
                     ELSE IF id \in bad
                     THEN AfterResult(run[c], FALSE, id, "Failed to parse transaction data")
                     ELSE [run[c] EXCEPT !.pc = "create"])
    /\ raced' = IF run'[c].pc = "create"
                THEN [raced EXCEPT ![Cur(c)] = @ \/
                        \E d \in Callers \ {c} :
                            run[d].pc \in {"create", "update"} /\ Cur(d) = Cur(c)]
                ELSE raced
    /\ UNCHANGED <<landing, bad, logCount, markFails>>

\* findUnique, the processed check, then normalize, sanitize and project.
FindUnique(c) ==
    /\ run[c].pc = "findUnique"
    /\ LET id == Cur(c) IN
       \/ /\ Throws
          /\ faults' = faults + 1
          /\ Step(c, AfterResult(run[c], FALSE, id, "DbError"))
          /\ UNCHANGED raced
       \/ /\ UNCHANGED faults
          /\ IF id \notin Ids
             THEN /\ Step(c, AfterResult(run[c], FALSE, id, "ModsecLanding record not found"))
                  /\ UNCHANGED raced
             ELSE IF landing[id]
             THEN /\ Step(c, AfterResult(run[c], FALSE, id, "Record already processed"))
                  /\ UNCHANGED raced
             ELSE IF id \in bad
             THEN /\ Step(c, AfterResult(run[c], FALSE, id, "Failed to parse transaction data"))
                  /\ UNCHANGED raced
             ELSE /\ Step(c, [run[c] EXCEPT !.pc = "create"])
                  /\ raced' = [raced EXCEPT ![id] = @ \/
                        \E d \in Callers \ {c} :
                            run[d].pc \in {"create", "update"} /\ Cur(d) = id]
    /\ UNCHANGED <<landing, bad, logCount, markFails>>

\* LogCreate with a failed create not ending the record.
LogCreateSwallow(c) ==
    /\ run[c].pc = "create"
    /\ LET id == Cur(c) IN
       \/ /\ Throws
          /\ faults' = faults + 1
          /\ Step(c, [run[c] EXCEPT !.pc = "update"])
          /\ UNCHANGED logCount
       \/ /\ UNCHANGED faults
          /\ logCount' = [logCount EXCEPT ![id] = @ + 1]
          /\ Step(c, [run[c] EXCEPT !.pc = "update"])
    /\ UNCHANGED <<landing, bad, markFails, raced>>

\* prisma.log.create
LogCreate(c) ==
    /\ run[c].pc = "create"
    /\ LET id == Cur(c) IN
       \/ /\ Throws
          /\ faults' = faults + 1
          /\ Step(c, AfterResult(run[c], FALSE, id, "DbError"))
          /\ UNCHANGED logCount
       \/ /\ UNCHANGED faults
          /\ logCount' = [logCount EXCEPT ![id] = @ + 1]
          /\ Step(c, [run[c] EXCEPT !.pc = "update"])
    /\ UNCHANGED <<landing, bad, markFails, raced>>

\* LandingUpdate with an update that leaves the flag as it was.
LandingUpdateNoFlag(c) ==
    /\ run[c].pc = "update"
    /\ LET id == Cur(c) IN
       \/ /\ Throws
          /\ faults' = faults + 1
          /\ markFails' = [markFails EXCEPT ![id] = @ + 1]
          /\ Step(c, AfterResult(run[c], FALSE, id, "DbError"))
       \/ /\ UNCHANGED <<faults, markFails>>
          /\ Step(c, AfterResult(run[c], TRUE, id, "none"))
    /\ UNCHANGED <<landing, bad, logCount, raced>>

\* LandingUpdate with a failed update clearing the flag.
LandingUpdateRollback(c) ==
    /\ run[c].pc = "update"
    /\ LET id == Cur(c) IN
       \/ /\ Throws
          /\ faults' = faults + 1
          /\ markFails' = [markFails EXCEPT ![id] = @ + 1]
          /\ Step(c, AfterResult(run[c], FALSE, id, "DbError"))
          /\ landing' = [landing EXCEPT ![id] = FALSE]
       \/ /\ UNCHANGED <<faults, markFails>>
          /\ landing' = [landing EXCEPT ![id] = TRUE]
          /\ Step(c, AfterResult(run[c], TRUE, id, "none"))
    /\ UNCHANGED <<bad, logCount, raced>>

\* LandingUpdate with a failed update deleting the log it follows.
LandingUpdateUndoLog(c) ==
    /\ run[c].pc = "update"
    /\ LET id == Cur(c) IN
       \/ /\ Throws
          /\ faults' = faults + 1
          /\ markFails' = [markFails EXCEPT ![id] = @ + 1]
          /\ Step(c, AfterResult(run[c], FALSE, id, "DbError"))
          /\ logCount' = [logCount EXCEPT ![id] = @ - 1]
          /\ UNCHANGED landing
       \/ /\ UNCHANGED <<faults, markFails, logCount>>
          /\ landing' = [landing EXCEPT ![id] = TRUE]
          /\ Step(c, AfterResult(run[c], TRUE, id, "none"))
    /\ UNCHANGED <<bad, raced>>

\* prisma.modsecLanding.update({ data: { processed: true } })
LandingUpdate(c) ==
    /\ run[c].pc = "update"
    /\ LET id == Cur(c) IN
       \/ /\ Throws
          /\ faults' = faults + 1
          /\ markFails' = [markFails EXCEPT ![id] = @ + 1]
          /\ Step(c, AfterResult(run[c], FALSE, id, "DbError"))
          /\ UNCHANGED landing
       \/ /\ UNCHANGED <<faults, markFails>>
          /\ landing' = [landing EXCEPT ![id] = TRUE]
          /\ Step(c, AfterResult(run[c], TRUE, id, "none"))
    /\ UNCHANGED <<bad, logCount, raced>>

(***************************************************************************)
(* Cron scheduler                                                          *)
(***************************************************************************)
\* SchedStart stopping the timer it replaces.
SchedStartReplace(ok) ==
    /\ IF ~ok
       THEN UNCHANGED <<task, orphans>>
       ELSE /\ task' = TRUE
            /\ UNCHANGED orphans
    /\ UNCHANGED isRunning
    /\ UNCHANGED batchVars
    /\ UNCHANGED <<wafVars, call>>

\* ModsecCronScheduler.start(): a new timer is scheduled and stored in task;
\* a timer already stored there is not stopped.
SchedStart(ok) ==
    /\ IF ~ok
       THEN UNCHANGED <<task, orphans>>
       ELSE /\ task => orphans < MaxOrphans
            /\ task' = TRUE
            /\ orphans' = IF task THEN orphans + 1 ELSE orphans
    /\ UNCHANGED isRunning
    /\ UNCHANGED batchVars
    /\ UNCHANGED <<wafVars, call>>

\* ModsecCronScheduler.stop()
SchedStop ==
    /\ task' = FALSE
    /\ UNCHANGED <<orphans, isRunning>>
    /\ UNCHANGED batchVars
    /\ UNCHANGED <<wafVars, call>>

\* Each firing of a timer is a fresh invocation of the callback.
FreeSlot == IF ~Active("cron1") THEN "cron1" ELSE "cron2"

\* Tick without the test of isRunning.
TickNoGuard(c, b) ==
    /\ c = FreeSlot
    /\ ~Active(c)
    /\ task \/ orphans > 0
    /\ isRunning' = TRUE
    /\ run' = [run EXCEPT ![c] =
            [IdleRun EXCEPT !.mode = "cron", !.pc = "count", !.batchSize = b]]
    /\ UNCHANGED <<task, orphans>>
    /\ UNCHANGED <<landing, bad, logCount, markFails, raced, faults>>
    /\ UNCHANGED <<wafVars, call>>

\* The tick callback up to its first await.
Tick(c, b) ==
    /\ c = FreeSlot
    /\ ~Active(c)
    /\ task \/ orphans > 0
    /\ IF isRunning
       THEN /\ run' = [run EXCEPT ![c] = [IdleRun EXCEPT !.mode = "cron", !.pc = "skipped"]]
            /\ UNCHANGED isRunning
       ELSE /\ isRunning' = TRUE
            /\ run' = [run EXCEPT ![c] =
                    [IdleRun EXCEPT !.mode = "cron", !.pc = "count", !.batchSize = b]]
    /\ UNCHANGED <<task, orphans>>
    /\ UNCHANGED <<landing, bad, logCount, markFails, raced, faults>>
    /\ UNCHANGED <<wafVars, call>>

\* prisma.modsecLanding.count({ where: { processed: false } })
CronCount(c) ==
    /\ run[c].pc = "count"
    /\ \/ /\ Throws
          /\ faults' = faults + 1
          /\ Step(c, [run[c] EXCEPT !.pc = "countFailed"])
       \/ /\ UNCHANGED faults
          /\ Step(c, IF Len(Unprocessed) = 0
                     THEN [run[c] EXCEPT !.pc = "noRecords"]
                     ELSE [run[c] EXCEPT !.pc = "findMany",
                                         !.backlog = Len(Unprocessed)])
    /\ UNCHANGED <<landing, bad, logCount, markFails, raced>>

\* ModsecCronScheduler.getStatus()
getStatus == [running |-> task, isProcessing |-> isRunning]

(***************************************************************************)
(* Signed toggle client                                                    *)
(***************************************************************************)
\* loadPrivateKey keeping a key object for a PEM string that does not load.
loadPrivateKeyLenient(p) == p # "absent"

\* WAFAgentService.loadPrivateKey: TRUE when a key object was created.
loadPrivateKey(p) == p = "valid"

\* WAFAgentService.signData throws without a key object.
signData(key) == key

\* The characters of a domain name, as code points.
DomainChars(d) ==
    CASE d = "a.com" -> <<97, 46, 99, 111, 109>>
      [] d = "b.com" -> <<98, 46, 99, 111, 109>>

\* enabled ? "true" : "false"
enabledStr(enabled) ==
    IF enabled THEN <<116, 114, 117, 101>> ELSE <<102, 97, 108, 115, 101>>

\* A signed string that leaves the flag out.
dataToSignDomainOnly(domain, enabled) == DomainChars(domain)

\* `${domain}|${enabledStr}`
dataToSign(domain, enabled) == DomainChars(domain) \o <<124>> \o enabledStr(enabled)

\* The RSA-PSS signature of a string under the loaded private key: an
\* ideal signature, which stands for the string it was made for.
signature(data) == <<"sig", data>>

\* Verification under the matching public key.
verify(data, sig) == sig = <<"sig", data>>

\* The body toggleWAF posts to the agent.
requestBody(domain, enabled) ==
    [domain |-> domain, enabled |-> enabled,
     signature |-> signature(dataToSign(domain, enabled))]

\* Whether toggleWAF gets as far as sending the request.
sendsRequest(key) == key /\ signData(key)

\* toggleWAF without the test of the status field of the answer.
toggleWAFNoStatusCheck(key, reply) ==
    IF ~sendsRequest(key) THEN "threw"
    ELSE IF reply = "ok" THEN "OK"
    ELSE IF reply = "statusError" THEN "ERROR"
    ELSE "threw"

\* WAFAgentService.toggleWAF: the status field of the answer it returns,
\* or "threw".
toggleWAF(key, reply) ==
    IF ~sendsRequest(key) THEN "threw"
    ELSE IF reply = "ok" THEN "OK"
    ELSE "threw"

\* What the agent has done when the call is over: it switches on a
\* request it answers with OK, and may or may not have switched when the
\* connection broke.
AgentAfter(key, reply, d, e) ==
    IF ~sendsRequest(key) THEN {agentState}
    ELSE IF reply = "ok" THEN {[agentState EXCEPT ![d] = e]}
    ELSE IF reply = "networkError" THEN {agentState, [agentState EXCEPT ![d] = e]}
    ELSE {agentState}

\* The checks of the toggle route before the agent is called: 0 when all pass.
validate(kind) ==
    CASE kind = "noToken" -> 401
      [] kind \in {"noDomain", "badEnabled"} -> 400
      [] kind = "noOrganization" -> 404
      [] kind \in {"foreignDomain", "notAdmin"} -> 403
      [] OTHER -> 0

\* POST /:id/waf-status/toggle
ToggleRoute(kind, d, e, reply, upsertOk) ==
    /\ lastRequest' = [kind |-> kind, domain |-> d, enabled |-> e, reply |-> reply,
                       body |-> IF validate(kind) = 0 /\ sendsRequest(privateKeyObject)
                                THEN requestBody(d, e = "on") ELSE NoBody]
    /\ IF validate(kind) # 0
       THEN /\ lastResponse' = validate(kind)
            /\ lastToggle' = "notCalled"
            /\ UNCHANGED <<wafStatus, agentState, fetchCalls>>
       ELSE /\ sendsRequest(privateKeyObject) => fetchCalls < MaxFetch
            /\ fetchCalls' = IF sendsRequest(privateKeyObject)
                             THEN fetchCalls + 1 ELSE fetchCalls
            /\ agentState' \in AgentAfter(privateKeyObject, reply, d, e)
            /\ lastToggle' = toggleWAF(privateKeyObject, reply)
            /\ IF toggleWAF(privateKeyObject, reply) # "OK"
               THEN /\ lastResponse' = 502
                    /\ UNCHANGED wafStatus
               ELSE IF upsertOk
               THEN /\ wafStatus' = [wafStatus EXCEPT ![d] = e]
                    /\ lastResponse' = 200
               ELSE /\ lastResponse' = 500
                    /\ UNCHANGED wafStatus
    /\ UNCHANGED <<pem, privateKeyObject, bulk>>
    /\ UNCHANGED batchVars
    /\ UNCHANGED cronVars
    /\ UNCHANGED call

\* The checks of the bulk route before the agent is called: 0 when all pass.
validateBulk(kind) ==
    CASE kind = "noToken" -> 401
      [] kind \in {"noUser", "noOrganization"} -> 404
      [] kind \in {"noDomains", "badItem"} -> 400
      [] kind \in {"notAdmin", "foreignDomain"} -> 403
      [] OTHER -> 0

BulkUnchanged ==
    /\ UNCHANGED <<pem, privateKeyObject, lastRequest, lastToggle, lastResponse>>
    /\ UNCHANGED batchVars
    /\ UNCHANGED cronVars
    /\ UNCHANGED call

\* PUT /:id/waf-status up to the first call of the agent.
BulkRoute(kind, items) ==
    /\ bulk.pc \in {"idle", "done"}
    /\ IF validateBulk(kind) # 0
       THEN bulk' = [NoBulk EXCEPT !.pc = "done", !.response = validateBulk(kind)]
       ELSE /\ sendsRequest(privateKeyObject) => fetchCalls + Len(items) <= MaxFetch
            /\ bulk' = [NoBulk EXCEPT !.pc = "agent", !.items = items, !.idx = 1]
    /\ UNCHANGED <<wafStatus, agentState, fetchCalls>>
    /\ BulkUnchanged

\* What the agent loop does after the result of one call.
afterAgent(b, res) ==
    LET results == Append(b.results, res) IN
    IF b.idx < Len(b.items)
    THEN [b EXCEPT !.idx = @ + 1, !.results = results]
    ELSE IF \E i \in 1..Len(results) : results[i] # "OK"
    THEN [b EXCEPT !.pc = "done", !.response = 502, !.results = results]
    ELSE [b EXCEPT !.pc = "upsert", !.results = results]

\* BulkAgent writing the row of a domain as soon as its call succeeded.
BulkAgentWriteThrough(reply) ==
    /\ bulk.pc = "agent"
    /\ LET item == bulk.items[bulk.idx]
           res == toggleWAF(privateKeyObject, reply)
       IN /\ fetchCalls' = IF sendsRequest(privateKeyObject)
                            THEN fetchCalls + 1 ELSE fetchCalls
          /\ agentState' \in AgentAfter(privateKeyObject, reply, item.domain, item.enabled)
          /\ bulk' = afterAgent(bulk, res)
          /\ wafStatus' = IF res = "OK"
                           THEN [wafStatus EXCEPT ![item.domain] = item.enabled]
                           ELSE wafStatus
    /\ BulkUnchanged

\* BulkAgent leaving the loop at the first call that failed.
BulkAgentStopAtFailure(reply) ==
    /\ bulk.pc = "agent"
    /\ LET item == bulk.items[bulk.idx]
           res == toggleWAF(privateKeyObject, reply)
       IN /\ fetchCalls' = IF sendsRequest(privateKeyObject)
                            THEN fetchCalls + 1 ELSE fetchCalls
          /\ agentState' \in AgentAfter(privateKeyObject, reply, item.domain, item.enabled)
          /\ bulk' = IF res # "OK"
                      THEN [bulk EXCEPT !.pc = "done", !.response = 502,
                                        !.results = Append(@, res)]
                      ELSE afterAgent(bulk, res)
    /\ UNCHANGED wafStatus
    /\ BulkUnchanged

\* One turn of the loop over the domains: toggleWAF for the next item,
\* its failure collected; after the last item 502 if any call failed.
BulkAgent(reply) ==
    /\ bulk.pc = "agent"
    /\ LET item == bulk.items[bulk.idx]
           res == toggleWAF(privateKeyObject, reply)
       IN /\ fetchCalls' = IF sendsRequest(privateKeyObject)
                            THEN fetchCalls + 1 ELSE fetchCalls
          /\ agentState' \in AgentAfter(privateKeyObject, reply, item.domain, item.enabled)
          /\ bulk' = afterAgent(bulk, res)
    /\ UNCHANGED wafStatus
    /\ BulkUnchanged

\* Promise.all over one upsert per item, then the query of the rows:
\* the upserts in okSet succeed, in any order.
BulkUpsert(okSet, findOk) ==
    /\ bulk.pc = "upsert"
    /\ okSet \subseteq 1..Len(bulk.items)
    /\ wafStatus' \in
          {f \in [Domains -> {"none", "on", "off"}] :
              \A d \in Domains :
                  LET written == {bulk.items[i].enabled :
                                    i \in {j \in okSet : bulk.items[j].domain = d}}
                  IN IF written = {} THEN f[d] = wafStatus[d] ELSE f[d] \in written}
    /\ bulk' = [bulk EXCEPT !.pc = "done",
                            !.response = IF okSet = 1..Len(bulk.items) /\ findOk
                                         THEN 200 ELSE 500]
    /\ UNCHANGED <<agentState, fetchCalls>>
    /\ BulkUnchanged

(***************************************************************************)
(* Field sanitizer                                                         *)
(*                                                                         *)
(* A string is the sequence of its character codes.  A JSON value is a     *)
(* record of its type t and its content v.                                 *)
(***************************************************************************)
NUL == 0
Backslash == 92
LowerU == 117
UpperU == 85
Zero == 48
Four == 52

Undefined == [t |-> "undefined", v |-> <<>>]
JNull == [t |-> "null", v |-> <<>>]
JStr(s) == [t |-> "str", v |-> s]
JNum(n) == [t |-> "num", v |-> n]
JArr(a) == [t |-> "arr", v |-> a]
JObj(f) == [t |-> "obj", v |-> f]

\* What an expression that threw leaves in place of a value.
Threw == [t |-> "threw", v |-> <<>>]

\* The character at index i, or -1 past the end of the string.
At(s, i) == IF i >= 1 /\ i <= Len(s) THEN s[i] ELSE -1

\* [0-9a-fA-F]
HexDigits == (48..57) \cup (65..70) \cup (97..102)

\* parseInt(hex, 16) of one digit
hexVal(ch) ==
    IF ch \in 48..57 THEN ch - 48
    ELSE IF ch \in 65..70 THEN ch - 55
    ELSE ch - 87

\* ["\\/bfnrtu0-9x]
EscapeChars == {34, 92, 47, 98, 102, 110, 114, 116, 117, 120} \cup (48..57)

\* The number of hex digits that follow from index i on.
RECURSIVE hexRun(_, _)
hexRun(s, i) == IF At(s, i) \in HexDigits THEN 1 + hexRun(s, i + 1) ELSE 0

\* The number of backslashes that follow from index i on.
RECURSIVE backslashRun(_, _)
backslashRun(s, i) == IF At(s, i) = Backslash THEN 1 + backslashRun(s, i + 1) ELSE 0

\* The length of the match of a regular expression of sanitizeString at
\* index i of s, or 0 when it does not match there.
matchLen(pat, s, i) ==
    CASE pat = "nul" ->                    \* /\0/
            IF s[i] = NUL THEN 1 ELSE 0
      [] pat = "u0000" ->                  \* /\\u0000/
            IF /\ s[i] = Backslash /\ At(s, i + 1) = LowerU
               /\ \A k \in 2..5 : At(s, i + k) = Zero
            THEN 6 ELSE 0
      [] pat = "u0000i" ->                 \* /\\u0000/i
            IF /\ s[i] = Backslash /\ At(s, i + 1) \in {LowerU, UpperU}
               /\ \A k \in 2..5 : At(s, i + k) = Zero
            THEN 6 ELSE 0
      [] pat = "uXXXX" ->                  \* /\\u([0-9a-fA-F]{4})/
            IF /\ s[i] = Backslash /\ At(s, i + 1) = LowerU
               /\ hexRun(s, i + 2) >= 4
            THEN 6 ELSE 0
      [] pat = "strayBackslash" ->         \* /\\(?!["\\/bfnrtu0-9x])/
            IF s[i] = Backslash /\ At(s, i + 1) \notin EscapeChars THEN 1 ELSE 0
      [] pat = "backslashes" ->            \* /\\\\\\+/
            IF backslashRun(s, i) >= 3 THEN backslashRun(s, i) ELSE 0
      [] pat = "uNonHex" ->                \* /\\u[^0-9a-fA-F]/
            IF /\ s[i] = Backslash /\ At(s, i + 1) = LowerU
               /\ i + 2 <= Len(s) /\ s[i + 2] \notin HexDigits
            THEN 3 ELSE 0
      [] pat = "uShort" ->                 \* /\\u[0-9a-fA-F]{0,3}(?![0-9a-fA-F])/
            IF /\ s[i] = Backslash /\ At(s, i + 1) = LowerU
               /\ hexRun(s, i + 2) <= 3
            THEN 2 + hexRun(s, i + 2) ELSE 0

\* What the match at index i is replaced with.
replacement(pat, s, i) ==
    CASE pat = "uXXXX" ->
            LET code == 4096 * hexVal(s[i + 2]) + 256 * hexVal(s[i + 3])
                        + 16 * hexVal(s[i + 4]) + hexVal(s[i + 5])
            IN IF code = 0 THEN <<>>
               ELSE IF code >= 32 /\ code <= 126 THEN <<code>>
               ELSE IF code \in {9, 10, 13} THEN <<code>>
               ELSE <<>>
      [] pat = "backslashes" -> <<Backslash, Backslash>>
      [] OTHER -> <<>>

\* String.prototype.replace with a global regular expression, from index
\* i on: matches are found left to right in the string as it was, and the
\* search resumes after each match.
RECURSIVE replace(_, _, _)
replace(pat, s, i) ==
    IF i > Len(s) THEN <<>>
    ELSE IF matchLen(pat, s, i) = 0 THEN <<s[i]>> \o replace(pat, s, i + 1)
    ELSE replacement(pat, s, i) \o replace(pat, s, i + matchLen(pat, s, i))

\* Number.prototype.toString of an integer
RECURSIVE digits(_)
digits(n) == IF n < 10 THEN <<Zero + n>> ELSE digits(n \div 10) \o <<Zero + (n % 10)>>

toString(n) == IF n < 0 THEN <<45>> \o digits(0 - n) ELSE digits(n)

\* String(value) of a value that is not a string
String(val) ==
    CASE val.t = "num" -> toString(val.v)
      [] val.t = "obj" -> <<91, 111, 98, 106, 101, 99, 116, 32,
                            79, 98, 106, 101, 99, 116, 93>>

\* The regular expressions of sanitizeString in the order it applies them.
SanitizeSteps == <<"nul", "u0000", "u0000i", "uXXXX", "nul", "strayBackslash",
                   "backslashes", "uNonHex", "uShort">>

RECURSIVE applySteps(_, _, _)
applySteps(steps, k, s) ==
    IF k > Len(steps) THEN s
    ELSE applySteps(steps, k + 1, replace(steps[k], s, 1))

\* sanitizeString
sanitizeString(str) ==
    IF str.t \in {"null", "undefined"} THEN JNull
    ELSE LET s0 == IF str.t = "str" THEN str.v ELSE String(str)
         IN JStr(applySteps(SanitizeSteps, 1, s0))

\* JavaScript truthiness of a JSON value
Truthy(val) ==
    CASE val.t \in {"null", "undefined"} -> FALSE
      [] val.t = "str" -> Len(val.v) > 0
      [] val.t = "num" -> val.v # 0
      [] OTHER -> TRUE

\* cleanObject of sanitizeJson
RECURSIVE cleanObject(_)
cleanObject(val) ==
    CASE val.t \in {"null", "undefined"} -> JNull
      [] val.t = "str" ->
            LET cleaned == sanitizeString(val) IN
            IF Truthy(cleaned)
            THEN LET c2 == replace("u0000i", replace("nul", cleaned.v, 1), 1)
                 IN IF Len(c2) > 0 THEN JStr(c2) ELSE JNull
            ELSE JNull
      [] val.t = "arr" ->
            JArr(SelectSeq([i \in 1..Len(val.v) |-> cleanObject(val.v[i])],
                           LAMBDA x : x.t # "null"))
      [] val.t = "obj" ->
            LET cl == [k \in DOMAIN val.v |-> cleanObject(val.v[k])]
                keep == {k \in DOMAIN val.v : cl[k].t # "null"}
            IN JObj([k \in keep |-> cl[k]])
      [] OTHER -> val

\* The sanitizer applied to a value, as the record pipeline applies it
\* to the transaction and again to the fields of the log entry.
Sanitize ==
    /\ call.fn = "sanitize"
    /\ call.passes < 2
    /\ call' = [call EXCEPT !.passes = @ + 1, !.prev = call.out,
                            !.out = cleanObject(call.out)]
    /\ UNCHANGED <<batchVars, cronVars, wafVars>>

(***************************************************************************)
(* Log projector                                                           *)
(***************************************************************************)
Nullish(val) == val.t \in {"null", "undefined"}

\* val[k] of a value that is not null or undefined
Get(val, k) ==
    IF val.t = "obj" /\ k \in DOMAIN val.v THEN val.v[k] ELSE Undefined

\* val?.[k]
OptGet(val, k) == IF Nullish(val) THEN Undefined ELSE Get(val, k)

\* val?.[0]
OptFirst(val) ==
    IF val.t = "arr" /\ Len(val.v) > 0 THEN val.v[1] ELSE Undefined

\* a || b
Or(a, b) == IF Truthy(a) THEN a ELSE b

\* The value of a character as a digit of the radix, or -1.
digitVal(ch, radix) ==
    IF ch \in 48..57 THEN ch - 48
    ELSE IF radix = 16 /\ ch \in HexDigits THEN hexVal(ch)
    ELSE -1

WhiteSpace == {9, 10, 11, 12, 13, 32}

RECURSIVE skipSpace(_, _)
skipSpace(s, i) == IF At(s, i) \in WhiteSpace THEN skipSpace(s, i + 1) ELSE i

\* The value of the longest run of digits from index i on, after acc.
RECURSIVE parseDigits(_, _, _, _)
parseDigits(s, i, radix, acc) ==
    IF digitVal(At(s, i), radix) < 0 THEN acc
    ELSE parseDigits(s, i + 1, radix, acc * radix + digitVal(At(s, i), radix))

\* parseInt(string) without a radix: leading white space, a sign, a 0x
\* prefix, then the longest prefix of digits; NaN when there is none.
parseInt(val) ==
    LET s == IF val.t = "str" THEN val.v ELSE String(val)
        i0 == skipSpace(s, 1)
        neg == At(s, i0) = 45
        i1 == IF At(s, i0) \in {43, 45} THEN i0 + 1 ELSE i0
        hex == At(s, i1) = Zero /\ At(s, i1 + 1) \in {120, 88}
        radix == IF hex THEN 16 ELSE 10
        i2 == IF hex THEN i1 + 2 ELSE i1
    IN IF digitVal(At(s, i2), radix) < 0
       THEN [nan |-> TRUE, val |-> 0]
       ELSE [nan |-> FALSE,
             val |-> IF neg THEN 0 - parseDigits(s, i2, radix, 0)
                     ELSE parseDigits(s, i2, radix, 0)]

\* mapSeverity with the upper band starting above 8.
mapSeverityAbove(severity) ==
    IF ~Truthy(severity) THEN "LOW"
    ELSE LET severityNum == parseInt(severity) IN
         IF severityNum.nan THEN "LOW"
         ELSE IF severityNum.val > 8 THEN "CRITICAL"
         ELSE IF severityNum.val >= 6 THEN "HIGH"
         ELSE IF severityNum.val >= 4 THEN "MEDIUM"
         ELSE "LOW"

\* mapSeverity
mapSeverity(severity) ==
    IF ~Truthy(severity) THEN "LOW"
    ELSE LET severityNum == parseInt(severity) IN
         IF severityNum.nan THEN "LOW"
         ELSE IF severityNum.val >= 8 THEN "CRITICAL"
         ELSE IF severityNum.val >= 6 THEN "HIGH"
         ELSE IF severityNum.val >= 4 THEN "MEDIUM"
         ELSE "LOW"

\* determineAction without the test of 406.
determineActionOnly403(responseCode, severity) ==
    IF responseCode.t = "num" /\ responseCode.v = 403 THEN "blocked"
    ELSE LET severityNum == IF Truthy(severity) THEN parseInt(severity)
                            ELSE [nan |-> FALSE, val |-> 0]
         IN IF ~severityNum.nan /\ severityNum.val >= 6 THEN "blocked"
            ELSE "warning"

\* determineAction
determineAction(responseCode, severity) ==
    IF responseCode.t = "num" /\ responseCode.v \in {403, 406} THEN "blocked"
    ELSE LET severityNum == IF Truthy(severity) THEN parseInt(severity)
                            ELSE [nan |-> FALSE, val |-> 0]
         IN IF ~severityNum.nan /\ severityNum.val >= 6 THEN "blocked"
            ELSE "warning"

\* JSON.parse of a text without quotes, brackets, braces or letters: the
\* integers are JSON, every other such text is a syntax error.
JSONparse(s) ==
    LET body == IF At(s, 1) = 45 THEN Tail(s) ELSE s
    IN IF /\ Len(body) > 0
          /\ \A i \in 1..Len(body) : body[i] \in 48..57
          /\ (Len(body) > 1 => body[1] # Zero)
       THEN JNum(parseInt(JStr(s)).val)
       ELSE Threw

\* sanitizeJson
sanitizeJson(obj) ==
    IF Nullish(obj) THEN JNull
    ELSE IF obj.t = "str"
    THEN IF JSONparse(obj.v).t = "threw" THEN JNull
         ELSE cleanObject(JSONparse(obj.v))
    ELSE cleanObject(obj)

\* s.split(":")[0]
RECURSIVE beforeColon(_, _)
beforeColon(s, i) ==
    IF i > Len(s) \/ s[i] = 58 THEN <<>> ELSE <<s[i]>> \o beforeColon(s, i + 1)

\* The defaults of the required fields.
DefaultClientIp == JStr(<<48, 46, 48, 46, 48, 46, 48>>)       \* '0.0.0.0'
DefaultHost == JStr(<<117, 110, 107, 110, 111, 119, 110>>)    \* 'unknown'
DefaultMethod == JStr(<<71, 69, 84>>)                         \* 'GET'
DefaultRequestUrl == JStr(<<47>>)                             \* '/'

\* A step of the record that threw.
Fail(error) == [threw |-> TRUE, error |-> error]

\* value || null
OrNull(val) == IF Truthy(val) THEN val ELSE JNull

\* transformModsecToLog: the log entry, or the TypeError of reading a
\* property of a request that is not there or of splitting a Host header
\* that is not a string.
transformModsecToLog(transactionData) ==
    LET transaction == Get(transactionData, "transaction")
        firstMessage == OptFirst(OptGet(transaction, "messages"))
        details == OptGet(firstMessage, "details")
        request == Get(transaction, "request")
        response == Get(transaction, "response")
    IN IF Nullish(request) THEN Fail("TypeError")
       ELSE LET hostname == Get(request, "hostname")
                headers == Get(request, "headers")
                hostHeader == OptGet(headers, "Host")
            IN IF ~Truthy(hostname) /\ ~Nullish(hostHeader) /\ hostHeader.t # "str"
               THEN Fail("TypeError")
               ELSE LET host == Or(hostname,
                                   Or(IF Nullish(hostHeader) THEN Undefined
                                      ELSE JStr(beforeColon(hostHeader.v, 1)),
                                      DefaultHost))
                        userAgent == Or(OptGet(headers, "User-Agent"),
                                        Or(OptGet(headers, "user-agent"), JNull))
                        severity == OptGet(details, "severity")
                    IN [threw |-> FALSE,
                        action |-> determineAction(OptGet(response, "http_code"), severity),
                        severity |-> mapSeverity(severity),
                        clientIp |-> Or(Get(transaction, "client_ip"), DefaultClientIp),
                        host |-> Or(host, DefaultHost),
                        method |-> Or(Get(request, "method"), DefaultMethod),
                        requestUrl |-> Or(Get(request, "uri"), DefaultRequestUrl),
                        rule |-> sanitizeString(OptGet(firstMessage, "message")),
                        ruleId |-> sanitizeString(OptGet(details, "ruleId")),
                        userAgent |-> sanitizeString(userAgent),
                        headers |-> sanitizeJson(headers),
                        message |-> sanitizeString(OptGet(firstMessage, "message")),
                        responseCode |-> OrNull(OptGet(response, "http_code"))]

\* The final sanitization pass over the log entry.
safeLogEntry(parsed) ==
    [parsed EXCEPT
        !.headers = IF Truthy(parsed.headers) THEN sanitizeJson(parsed.headers) ELSE JNull,
        !.rule = IF Truthy(parsed.rule) THEN sanitizeString(parsed.rule) ELSE JNull,
        !.ruleId = IF Truthy(parsed.ruleId) THEN sanitizeString(parsed.ruleId) ELSE JNull,
        !.userAgent = IF Truthy(parsed.userAgent) THEN sanitizeString(parsed.userAgent)
                      ELSE JNull,
        !.message = IF Truthy(parsed.message) THEN sanitizeString(parsed.message)
                    ELSE JNull,
        !.clientIp = Or(parsed.clientIp, DefaultClientIp),
        !.host = Or(parsed.host, DefaultHost),
        !.method = Or(parsed.method, DefaultMethod),
        !.requestUrl = Or(parsed.requestUrl, DefaultRequestUrl),
        !.action = IF parsed.action = "" THEN "warning" ELSE parsed.action,
        !.severity = IF parsed.severity = "" THEN "LOW" ELSE parsed.severity]

\* toLogEntry without the test of the sanitized transaction.
toLogEntryUnchecked(transactionData) ==
    IF ~Truthy(Get(transactionData, "transaction"))
    THEN Fail("Invalid transaction data structure - missing transaction")
    ELSE LET sanitizedTransaction == sanitizeJson(transactionData)
             logEntry == transformModsecToLog(sanitizedTransaction)
         IN IF logEntry.threw THEN logEntry ELSE safeLogEntry(logEntry)

\* processModsecLandingRecord from the transaction the normalizer found to
\* the entry given to prisma.log.create.
toLogEntry(transactionData) ==
    IF ~Truthy(Get(transactionData, "transaction"))
    THEN Fail("Invalid transaction data structure - missing transaction")
    ELSE LET sanitizedTransaction == sanitizeJson(transactionData) IN
         IF ~Truthy(sanitizedTransaction)
                \/ ~Truthy(Get(sanitizedTransaction, "transaction"))
         THEN Fail("Failed to sanitize transaction data")
         ELSE LET logEntry == transformModsecToLog(sanitizedTransaction) IN
              IF logEntry.threw THEN logEntry ELSE safeLogEntry(logEntry)

\* The sanitizer and the projector applied to a transaction.
Project ==
    /\ call.fn = "project"
    /\ ~call.done
    /\ call' = [call EXCEPT !.done = TRUE, !.out = toLogEntry(call.transactionData)]
    /\ UNCHANGED <<batchVars, cronVars, wafVars>>

(***************************************************************************)
(* Transaction normalizer                                                  *)
(***************************************************************************)
\* A string that holds the JSON text of a value, once escaped or not; a
\* string that is no JSON text at all holds Undefined.
JText(val, escaped) == [t |-> "text", v |-> [of |-> val, escaped |-> escaped]]

\* typeof val === 'string'
IsString(val) == val.t \in {"str", "text"}

\* typeof val === 'object'
IsObject(val) == val.t \in {"obj", "arr", "null"}

\* JSON.parse(rawJsonText)
parseText(text) ==
    IF text.t = "str" THEN JSONparse(text.v)
    ELSE IF ~text.v.escaped /\ text.v.of.t # "undefined" THEN text.v.of
    ELSE Threw

\* JSON.parse of the text with its surrounding quotes removed and \" and
\* \\ unescaped.
parseUnescaped(text) ==
    IF text.t = "str" THEN JSONparse(text.v)
    ELSE IF text.v.of.t # "undefined" THEN text.v.of
    ELSE Threw

\* parsedJson.transaction ? parsedJson : { transaction: parsedJson }
wrap(parsedJson) ==
    IF Truthy(Get(parsedJson, "transaction")) THEN parsedJson
    ELSE JObj([k \in {"transaction"} |-> parsedJson])

Found(transactionData) == [threw |-> FALSE, value |-> transactionData]

\* The parse of the text the envelope holds, with the retry after
\* unescaping; reading .transaction of a parsed null throws as well.
parseEnvelope(rawJsonText) ==
    LET parsedJson == parseText(rawJsonText)
        retried == parseUnescaped(rawJsonText)
    IN IF parsedJson.t # "threw" /\ ~Nullish(parsedJson) THEN Found(wrap(parsedJson))
       ELSE IF retried.t # "threw" /\ ~Nullish(retried) THEN Found(wrap(retried))
       ELSE Fail("Failed to parse transaction data")

\* normalize with payload.transaction tried before the texts.
normalizeTransactionFirst(data) ==
    IF IsObject(data) /\ data.t # "null"
    THEN LET raw == Get(data, "raw")
             inner == Get(data, "data")
             rawJsonText == IF Truthy(raw) /\ IsString(raw) THEN raw
                            ELSE IF Truthy(inner) /\ IsString(inner) THEN inner
                            ELSE IF IsString(data) THEN data
                            ELSE JNull
         IN IF Truthy(Get(data, "transaction"))
            THEN Found(JObj([k \in {"transaction"} |-> Get(data, "transaction")]))
            ELSE IF Truthy(rawJsonText) THEN parseEnvelope(rawJsonText)
            ELSE IF Truthy(inner) /\ IsObject(inner) THEN Found(wrap(inner))
            ELSE Found(JObj([k \in {"transaction"} |-> data]))
    ELSE Fail("Failed to parse transaction data")

\* The envelope resolution of processModsecLandingRecord.
normalize(data) ==
    IF IsObject(data) /\ data.t # "null"
    THEN LET raw == Get(data, "raw")
             inner == Get(data, "data")
             rawJsonText == IF Truthy(raw) /\ IsString(raw) THEN raw
                            ELSE IF Truthy(inner) /\ IsString(inner) THEN inner
                            ELSE IF IsString(data) THEN data
                            ELSE JNull
         IN IF Truthy(rawJsonText) THEN parseEnvelope(rawJsonText)
            ELSE IF Truthy(Get(data, "transaction"))
            THEN Found(JObj([k \in {"transaction"} |-> Get(data, "transaction")]))
            ELSE IF Truthy(inner) /\ IsObject(inner) THEN Found(wrap(inner))
            ELSE Found(JObj([k \in {"transaction"} |-> data]))
    ELSE Fail("Failed to parse transaction data")

\* processModsecLandingRecord from the payload of the record it fetched
\* to the entry given to prisma.log.create.
ProcessPayload ==
    /\ call.fn = "payload"
    /\ ~call.done
    /\ call' = [call EXCEPT
            !.done = TRUE,
            !.found = normalize(call.data),
            !.out = IF normalize(call.data).threw THEN normalize(call.data)
                    ELSE toLogEntry(normalize(call.data).value)]
    /\ UNCHANGED <<batchVars, cronVars, wafVars>>

(***************************************************************************)
(* Specifications                                                          *)
(***************************************************************************)
BatchInit ==
    /\ landing = [r \in Ids |-> FALSE]
    /\ logCount = [r \in Ids |-> 0]
    /\ markFails = [r \in Ids |-> 0]
    /\ raced = [r \in Ids |-> FALSE]
    /\ faults = 0
    /\ run = [c \in Callers |-> IdleRun]
    /\ isRunning = FALSE
    /\ task = FALSE
    /\ orphans = 0

WafInit ==
    /\ privateKeyObject = loadPrivateKey(pem)
    /\ wafStatus = [d \in Domains |-> "none"]
    /\ agentState = [d \in Domains |-> "on"]
    /\ fetchCalls = 0
    /\ lastRequest = NoRequest
    /\ lastToggle = "none"
    /\ lastResponse = 0
    /\ bulk = NoBulk

\* No function of the pipeline is being applied on its own.
NoCall == [fn |-> "none"]

Init ==
    /\ BatchInit
    /\ bad = {}
    /\ pem = "valid"
    /\ WafInit
    /\ call = NoCall

\* Any of the rows may carry a payload that cannot be parsed.
InitSeq ==
    /\ BatchInit
    /\ bad \in SUBSET Ids
    /\ pem = "valid"
    /\ WafInit
    /\ call = NoCall

\* The server starts the scheduler once; the cron runs and the manual
\* callers interleave.
Next ==
    \/ \E c \in ManualCallers, b \in BatchSizes : PostProcess(c, b)
    \/ \E c \in ManualCallers, id \in Ids \cup {MissingId} : PostProcessId(c, id)
    \/ \E c \in Callers : FindMany(c)
    \/ \E c \in Callers : FindUnique(c)
    \/ \E c \in Callers : LogCreate(c)
    \/ \E c \in Callers : LandingUpdate(c)
    \/ \E ok \in BOOLEAN : ~task /\ SchedStart(ok)
    \/ \E c \in CronSlots : Tick(c, BATCH_SIZE)
    \/ \E c \in CronSlots : CronCount(c)

Spec == Init /\ [][Next]_vars

\* One caller issuing batch runs and single-record calls one at a time.
SeqNext ==
    \/ \E c \in ManualCallers, b \in BatchSizes : PostProcess(c, b)
    \/ \E c \in ManualCallers, id \in Ids \cup {MissingId} : PostProcessId(c, id)
    \/ \E c \in ManualCallers : FindMany(c)
    \/ \E c \in ManualCallers : FindUnique(c)
    \/ \E c \in ManualCallers : LogCreate(c)
    \/ \E c \in ManualCallers : LandingUpdate(c)

SpecSeq == InitSeq /\ [][SeqNext]_vars

\* A call that was started runs on to its end: every query is answered.
SeqSteps ==
    \E c \in ManualCallers :
        FindMany(c) \/ FindUnique(c) \/ LogCreate(c) \/ LandingUpdate(c)

\* The worker starts processAll again after each run.
SeqRuns == \E c \in ManualCallers, b \in BatchSizes : PostProcess(c, b)

SpecSeqFair == SpecSeq /\ WF_vars(SeqSteps) /\ SF_vars(SeqRuns)

\* The scheduler alone: start, stop, ticks and the runs they trigger.
CronNext ==
    \/ \E ok \in BOOLEAN : SchedStart(ok)
    \/ SchedStop
    \/ \E c \in CronSlots : Tick(c, BATCH_SIZE)
    \/ \E c \in CronSlots : CronCount(c)
    \/ \E c \in CronSlots : FindMany(c)
    \/ \E c \in CronSlots : FindUnique(c)
    \/ \E c \in CronSlots : LogCreate(c)
    \/ \E c \in CronSlots : LandingUpdate(c)

SpecCron == InitSeq /\ [][CronNext]_vars

\* The toggle service is constructed with whatever key the environment
\* holds, and serves the toggle route.
InitToggle ==
    /\ BatchInit
    /\ bad = {}
    /\ pem \in PemInputs
    /\ WafInit
    /\ call = NoCall

ToggleNext ==
    \E kind \in RequestKinds, d \in Domains, e \in {"on", "off"},
       reply \in AgentReplies, upsertOk \in BOOLEAN :
        ToggleRoute(kind, d, e, reply, upsertOk)

SpecToggle == InitToggle /\ [][ToggleNext]_vars

\* The bulk route on its own, one request at a time.
Items == [domain : Domains, enabled : {"on", "off"}]
BulkItems == UNION {[1..k -> Items] : k \in 1..MaxItems}

BulkNext ==
    \/ \E kind \in BulkKinds, items \in BulkItems : BulkRoute(kind, items)
    \/ \E reply \in AgentReplies : BulkAgent(reply)
    \/ \E okSet \in SUBSET (1..MaxItems), findOk \in BOOLEAN : BulkUpsert(okSet, findOk)

SpecBulk == InitToggle /\ [][BulkNext]_vars

\* The sanitizer on its own: strings over the characters its regular
\* expressions look for, and arrays and objects of such strings.
SanAlphabet == {NUL, Backslash, LowerU, UpperU, Zero, Four}
Strings(n) == UNION {[1..k -> SanAlphabet] : k \in 0..n}
SanValues ==
    {JStr(s) : s \in Strings(MaxStrLen)}
        \cup {JArr(<<JStr(s), JStr(t)>>) : s, t \in Strings(1)}
        \cup {JObj([k \in {"Server"} |-> JStr(s)]) : s \in Strings(2)}

InitSanitize ==
    /\ BatchInit
    /\ bad = {}
    /\ pem = "valid"
    /\ WafInit
    /\ call \in {[fn |-> "sanitize", arg |-> v, passes |-> 0, prev |-> v, out |-> v] :
                    v \in SanValues}

SanitizeNext == Sanitize

SpecSanitize == InitSanitize /\ [][SanitizeNext]_vars

\* The projector on its own.  A JSON object is built from the fields that
\* are present.
Obj(f) == JObj([k \in {x \in DOMAIN f : f[x].t # "undefined"} |-> f[k]])

NulStr == JStr(<<NUL>>)              \* a string that sanitizes away

Scores == -1..MaxScore

\* details.severity of the first message: the decimal text of a score, a
\* score as a JSON number, a text that is no number, or nothing.
SeverityInputs ==
    {[kind |-> "score", score |-> n, val |-> JStr(toString(n))] : n \in Scores}
        \cup {[kind |-> "score", score |-> n, val |-> JNum(n)] : n \in Scores}
        \cup {[kind |-> "unparseable", score |-> 0, val |-> JStr(t)] :
                    t \in {<<UpperU>>, <<45>>}}
        \cup {[kind |-> k, score |-> 0, val |-> v] :
                    k \in {"missing", "noDetails", "noMessages"},
                    v \in {Undefined, NulStr}}

Messages(sev) ==
    IF sev.kind = "noMessages" THEN Undefined
    ELSE JArr(<<Obj([message |-> JStr(<<109>>),
                     details |-> IF sev.kind = "noDetails" THEN Undefined
                                 ELSE Obj([severity |-> sev.val,
                                           ruleId |-> JStr(<<57>>)])])>>)

HeaderInputs ==
    {Undefined,
     Obj(("Host" :> JStr(<<97, 58, 56>>)) @@ ("User-Agent" :> JStr(<<109>>))),
     Obj(("Host" :> NulStr) @@ ("user-agent" :> JStr(<<109>>)))}

RequestInputs ==
    {Undefined}
        \cup {Obj([hostname |-> h, headers |-> hd, method |-> l.method, uri |-> l.uri]) :
                    h \in {Undefined, JStr(<<104>>)}, hd \in HeaderInputs,
                    l \in {[method |-> Undefined, uri |-> Undefined],
                            [method |-> JStr(<<80>>), uri |-> JStr(<<47, 120>>)]}}

\* http_code of the response; 0 stands for a transaction without response.
ResponseCodes == {0, 200, 403, 406, 500}

ClientIpInputs == {Undefined, JStr(<<49>>), NulStr}

InitProject ==
    /\ BatchInit
    /\ bad = {}
    /\ pem = "valid"
    /\ WafInit
    /\ call \in
        {[fn |-> "project",
          transactionData |->
              Obj([transaction |->
                  Obj([client_ip |-> ip,
                       request |-> rq,
                       response |-> IF code = 0 THEN Undefined
                                    ELSE Obj([http_code |-> JNum(code)]),
                       messages |-> Messages(sev)])]),
          code |-> code,
          sev |-> [kind |-> sev.kind, score |-> sev.score],
          done |-> FALSE,
          out |-> Fail("none")] :
            ip \in ClientIpInputs, rq \in RequestInputs,
            code \in ResponseCodes, sev \in SeverityInputs}

ProjectNext == Project

SpecProject == InitProject /\ [][ProjectNext]_vars

\* The normalizer on its own: payloads in the envelope shapes of the
\* ingestion agents.  The transactions differ in client_ip, which tells
\* where the normalizer took the transaction from.
Tx(ip) == Obj([client_ip |-> JStr(<<ip>>),
               request |-> Obj([hostname |-> JStr(<<104>>)])])

Wrapped(tx) == JObj([k \in {"transaction"} |-> tx])

RawInputs ==
    {Undefined, JStr(<<>>), JNum(5),
     JText(Wrapped(Tx(49)), FALSE), JText(Tx(49), FALSE), JText(Wrapped(Tx(49)), TRUE),
     JText(Undefined, FALSE), JText(JNull, FALSE)}

DataInputs ==
    {Undefined, JStr(<<>>),
     JText(Wrapped(Tx(50)), FALSE), JText(Undefined, FALSE),
     Wrapped(Tx(51)), Tx(51)}

\* payload.transaction: absent, a transaction, a string that sanitizes away,
\* a transaction whose client_ip sanitizes away.
TransactionInputs == {Undefined, Tx(52), NulStr, Tx(NUL)}

Payloads ==
    {Obj([raw |-> r, data |-> d, transaction |-> x]) :
        r \in RawInputs, d \in DataInputs, x \in TransactionInputs}
        \cup {JText(Wrapped(Tx(53)), FALSE), JText(Undefined, FALSE), JNull, JNum(5)}

InitNormalize ==
    /\ BatchInit
    /\ bad = {}
    /\ pem = "valid"
    /\ WafInit
    /\ call \in {[fn |-> "payload", data |-> d, done |-> FALSE,
                   found |-> Fail("none"), out |-> Fail("none")] : d \in Payloads}

NormalizeNext == ProcessPayload

SpecNormalize == InitNormalize /\ [][NormalizeNext]_vars

(***************************************************************************)
(* Properties                                                              *)
(***************************************************************************)
BatchDone(c) == run[c].mode = "batch" /\ run[c].pc = "done"
ActiveCron == {c \in CronSlots : Active(c)}
HeldBy(r) == {c \in Callers : run[c].pc = "update" /\ Cur(c) = r}

\* C1: with every payload parseable, a run of processAll that ends with
\* no failed record has processed the whole backlog it started with:
\* processed = n, failed = 0 and every landing record is processed.
C1_DrainsBacklog ==
    \A c \in Callers :
        (bad = {} /\ BatchDone(c) /\ run[c].failed = 0)
            => /\ run[c].processed = run[c].backlog
               /\ \A r \in Ids : landing[r]

\* C2: at most one invocation of the tick callback is past the isRunning
\* test at any time, isRunning is set exactly while one is, and a tick
\* that fires meanwhile ends at once, leaving the store and every other
\* invocation as they were.
C2_SingleFlight ==
    /\ [](Cardinality(ActiveCron) <= 1 /\ (isRunning <=> ActiveCron # {}))
    /\ [][\A c \in CronSlots :
            (run'[c].pc = "skipped" /\ run'[c] # run[c])
                => /\ isRunning /\ isRunning'
                   /\ ActiveCron' = ActiveCron
                   /\ UNCHANGED <<landing, logCount>>
                   /\ \A d \in Callers \ {c} : run'[d] = run[d]]_vars

C2_Witness ==
    /\ run["cron2"].pc = "skipped"
    /\ run["cron1"].pc = "update"

\* C3: a record that fails in a batch run is counted in failed, its id is
\* appended to errors, it stays unprocessed, and the run goes on with the
\* next record of the page, or with the next page when the page was full.
C3_FailureIsLocal ==
    [][\A c \in Callers :
        (run[c].mode = "batch" /\ run'[c].failed = run[c].failed + 1)
            => LET rc == run[c]
                   id == Cur(c)
               IN /\ run'[c].processed = rc.processed
                  /\ Len(run'[c].errors) = Len(rc.errors) + 1
                  /\ run'[c].errors[Len(run'[c].errors)].id = id
                  /\ SubSeq(run'[c].errors, 1, Len(rc.errors)) = rc.errors
                  /\ landing' = landing
                  /\ ~landing'[id]
                  /\ IF rc.idx < Len(rc.records)
                     THEN /\ run'[c].pc = "findUnique"
                          /\ run'[c].records = rc.records
                          /\ run'[c].idx = rc.idx + 1
                     ELSE IF Len(rc.records) = rc.batchSize
                     THEN /\ run'[c].pc = "findMany"
                          /\ run'[c].skip = rc.skip + rc.batchSize
                     ELSE run'[c].pc = "done"]_vars

C3_Witness ==
    \E c \in Callers :
        /\ run[c].mode = "batch"
        /\ run[c].failed = 1
        /\ run[c].errors[1].id = 1
        /\ markFails[1] = 1
        /\ ~landing[1]
        /\ run[c].processed = 1
        /\ landing[2]

\* C4 as claimed: no batch run ends by throwing.
C4_NeverThrows == \A c \in Callers : run[c].pc # "threw"

\* C4: a batch run throws only out of the page query; a failure of any
\* other step leaves the run going or ended with a returned value.
C4_ThrowsOnlyFromPageQuery ==
    [][\A c \in Callers :
        (run'[c].pc = "threw" /\ run[c].pc # "threw")
            => /\ run[c].pc = "findMany"
               /\ faults' = faults + 1]_vars

C4_Witness ==
    \E c \in Callers :
        /\ run[c].pc = "threw"
        /\ run[c].failed = 1
        /\ Len(run[c].errors) = 1

\* C5: every landing record with processed = true has had a LogRecord
\* created from it.
C5_ProcessedHasLog == \A r \in Ids : landing[r] => logCount[r] >= 1

C5_Witness ==
    \E r \in Ids : landing[r] /\ raced[r] /\ Active("manual") /\ ActiveCron # {}

\* C6 as claimed: no landing record has more than one LogRecord, and a
\* processed one has exactly one.
C6_ExactlyOnce ==
    \A r \in Ids : logCount[r] <= 1 /\ (landing[r] => logCount[r] = 1)

\* C6: with calls issued one at a time, the LogRecords created from a
\* landing record are one for each failed mark step, one if the record
\* is processed, and one while its mark step is pending.
C6_OncePerMarkAttempt ==
    \A r \in Ids :
        logCount[r] = markFails[r] + (IF landing[r] THEN 1 ELSE 0)
                                   + Cardinality(HeldBy(r))

C6_Witness ==
    \E r \in Ids : landing[r] /\ markFails[r] = 1 /\ logCount[r] = 2

\* C7: two concurrent callers can both persist a LogRecord for one
\* landing record before either marks it, and only so: a record has more
\* LogRecords than one plus its failed mark steps only if a caller read
\* it as unprocessed while another was between the read and the mark.
C7_DuplicateOnlyByRace ==
    \A r \in Ids : logCount[r] > markFails[r] + 1 => raced[r]

C7_Witness ==
    \E r \in Ids :
        /\ ~landing[r]
        /\ markFails[r] = 0
        /\ logCount[r] = 2
        /\ HeldBy(r) = {"cron1", "manual"}

\* C8: the toggle route answers 200 only to a request that passed its
\* checks and whose agent call got a 2xx answer with status OK, with a
\* key loaded; when the agent call fails it answers 502 and leaves
\* DomainWAFStatus unchanged, and a request that fails the checks is
\* answered 400, 401, 403 or 404, never 502.
C8_FailClosed ==
    [][LET rq == lastRequest'
           failed == rq.reply # "ok" \/ ~privateKeyObject
       IN /\ lastToggle' \notin {"threw", "notCalled"}
               => rq.kind = "valid" /\ rq.reply = "ok" /\ privateKeyObject
          /\ lastResponse' = 200 => lastToggle' = "OK"
          /\ wafStatus' # wafStatus => lastResponse' = 200
          /\ (rq.kind = "valid" /\ failed)
               => lastResponse' = 502 /\ wafStatus' = wafStatus
          /\ rq.kind # "valid" => lastResponse' \in {400, 401, 403, 404}]_vars

C8_Witness ==
    /\ lastRequest.kind = "valid"
    /\ lastRequest.reply = "statusError"
    /\ lastRequest.enabled = "off"
    /\ lastResponse = 502
    /\ privateKeyObject
    /\ wafStatus[lastRequest.domain] = "on"

\* C9: with the key absent or not loadable no key object exists, no
\* request is ever sent to the agent and no toggle succeeds; the key
\* object never changes after construction.
C9_NoKeyNoRequest ==
    /\ [](pem # "valid" =>
            /\ ~privateKeyObject
            /\ fetchCalls = 0
            /\ lastResponse # 200
            /\ agentState = [d \in Domains |-> "on"]
            /\ wafStatus = [d \in Domains |-> "none"])
    /\ [][privateKeyObject' = privateKeyObject]_vars

C9_Witness ==
    /\ pem = "invalid"
    /\ lastRequest.kind = "valid"
    /\ lastRequest.reply = "ok"
    /\ lastResponse = 502

\* C10: a single-record call that finds its record already processed
\* answers "Record already processed" and changes no landing record and
\* no LogRecord.
C10_AlreadyProcessed ==
    [][\A c \in Callers :
        (/\ run[c].mode = "single"
         /\ run[c].pc = "findUnique"
         /\ run'[c] # run[c]
         /\ faults' = faults
         /\ Cur(c) \in Ids
         /\ landing[Cur(c)])
            => /\ run'[c].pc = "done"
               /\ run'[c].result = "Record already processed"
               /\ UNCHANGED <<landing, logCount, markFails>>]_vars

C10_Witness ==
    \E c \in Callers :
        /\ run[c].mode = "single"
        /\ run[c].result = "Record already processed"

\* C11: when a batch run of a single caller returns, processed + failed is
\* the number of records its page queries fetched, errors has one entry
\* for each failed record, each with the id of a distinct record the run
\* left unprocessed, and processed is the number of landing records the
\* run flipped from unprocessed to processed.
C11_ReturnContract ==
    \A c \in ManualCallers :
        BatchDone(c) =>
            LET rc == run[c] IN
            /\ rc.processed + rc.failed = rc.fetched
            /\ Len(rc.errors) = rc.failed
            /\ \A i \in 1..Len(rc.errors) :
                    /\ rc.errors[i].id \in Ids
                    /\ ~landing[rc.errors[i].id]
                    /\ \A j \in 1..Len(rc.errors) :
                            rc.errors[j].id = rc.errors[i].id => j = i
            /\ rc.processed = rc.backlog - Len(Unprocessed)

C11_Witness ==
    /\ BatchDone("manual")
    /\ run["manual"].fetched = 2
    /\ run["manual"].processed = 1
    /\ run["manual"].failed = 1
    /\ run["manual"].errors[1].id = 1

\* C12: the processed flag of a landing record only changes from false to
\* true: a record that is processed stays processed through every step of
\* batch runs, single-record calls and cron runs, failed steps included,
\* and the set of landing records never shrinks.
C12_ProcessedIsMonotonic ==
    /\ [](DOMAIN landing = Ids)
    /\ [][\A r \in Ids : landing[r] => landing'[r]]_vars

C12_Witness ==
    \E r \in Ids, c \in Callers :
        /\ landing[r]
        /\ markFails[r] = 1
        /\ run[c].pc = "done"
        /\ run[c].result = "Record already processed"

\* C13: manual batch runs neither read nor set the flag of the scheduler:
\* a manual caller that is not running can start a run whatever the flag
\* says, no step of a manual run changes the flag, a tick is skipped only
\* while a cron run is in flight, and getStatus reports isProcessing only
\* while a cron run is in flight, so not for a manual run alone.
C13_ManualIgnoresFlag ==
    /\ [](\A c \in ManualCallers, b \in BatchSizes :
            ~Active(c) => ENABLED PostProcess(c, b))
    /\ [](getStatus.isProcessing <=> ActiveCron # {})
    /\ [][\A c \in ManualCallers :
            run'[c] # run[c] => isRunning' = isRunning]_vars
    /\ [][\A c \in CronSlots :
            (run'[c].pc = "skipped" /\ run'[c] # run[c]) => ActiveCron # {}]_vars

C13_Witness ==
    /\ run["manual"].mode = "batch"
    /\ run["manual"].pc = "update"
    /\ run["manual"].processed = 1
    /\ run["cron1"].pc = "create"
    /\ getStatus.isProcessing

\* C14: getStatus reports running exactly when a timer the scheduler
\* installed is still active, and isProcessing exactly when a cron run is
\* in flight.
C14_StatusMatchesTimers ==
    /\ getStatus.running <=> (task \/ orphans > 0)
    /\ getStatus.isProcessing <=> ActiveCron # {}

\* C15: sanitizing is idempotent: a second pass of the sanitizer over the
\* output of the first leaves it as it is.
C15_SanitizeIdempotent ==
    (call.fn = "sanitize" /\ call.passes = 2)
        => (call.out.t = call.prev.t /\ call.out.v = call.prev.v)

\* The bands of the severity score.
Band(s) ==
    IF s >= 8 THEN "CRITICAL"
    ELSE IF s >= 6 THEN "HIGH"
    ELSE IF s >= 4 THEN "MEDIUM"
    ELSE "LOW"

Rank(severity) ==
    CASE severity = "LOW" -> 0
      [] severity = "MEDIUM" -> 1
      [] severity = "HIGH" -> 2
      [] severity = "CRITICAL" -> 3

Projected == call.fn = "project" /\ call.done /\ ~call.out.threw

\* C16: the severity of a log entry is the band of the score s of the
\* first message: CRITICAL from 8, HIGH from 6, MEDIUM from 4, LOW below
\* and when the score is missing or no number; no lower score gets a
\* higher severity.
C16_SeverityBands ==
    Projected =>
        /\ call.sev.kind = "score" =>
                /\ call.out.severity = Band(call.sev.score)
                /\ \A m \in Scores :
                        m <= call.sev.score =>
                            Rank(mapSeverity(JStr(toString(m))))
                                <= Rank(call.out.severity)
        /\ call.sev.kind # "score" => call.out.severity = "LOW"

C16_Witness ==
    /\ Projected
    /\ call.sev.kind = "score"
    /\ call.sev.score = 8
    /\ call.out.severity = "CRITICAL"

\* C17: the action of a log entry is blocked exactly when the response
\* code is 403 or 406 or the severity score is at least 6, and warning
\* otherwise.
C17_ActionRule ==
    Projected =>
        /\ call.out.action \in {"blocked", "warning"}
        /\ call.out.action = "blocked"
                <=> \/ call.code \in {403, 406}
                    \/ call.sev.kind = "score" /\ call.sev.score >= 6

C17_Witness ==
    /\ Projected
    /\ call.code = 406
    /\ call.sev.kind = "score"
    /\ call.sev.score = 4
    /\ call.out.action = "blocked"
    /\ call.out.severity = "MEDIUM"

Normalized == call.fn = "payload" /\ call.done

\* C18: a payload that is itself a string holding the JSON text of a
\* transaction is parsed directly and the record goes on to a log entry.
C18_StringPayloadParsed ==
    (/\ Normalized
     /\ IsString(call.data)
     /\ parseText(call.data).t = "obj")
        => /\ ~call.found.threw
           /\ call.found.value = wrap(parseText(call.data))
           /\ ~call.out.threw

\* The result of the rule that parses a text of the envelope.
FromText(text) ==
    LET parsed == IF parseText(text).t # "threw" /\ ~Nullish(parseText(text))
                  THEN parseText(text) ELSE parseUnescaped(text)
    IN IF parsed.t = "threw" \/ Nullish(parsed)
       THEN Fail("Failed to parse transaction data")
       ELSE Found(wrap(parsed))

\* The decision order over an object payload; emptyIsString tells whether
\* an empty string selects the rules for strings.
ByOrder(data, emptyIsString) ==
    LET raw == Get(data, "raw")
        inner == Get(data, "data")
        selects(val) == IsString(val) /\ (emptyIsString \/ val.t = "text" \/ Len(val.v) > 0)
    IN IF selects(raw) THEN FromText(raw)
       ELSE IF selects(inner) THEN FromText(inner)
       ELSE IF "transaction" \in DOMAIN data.v THEN Found(Wrapped(data.v["transaction"]))
       ELSE IF inner.t = "obj"
       THEN Found(IF "transaction" \in DOMAIN inner.v THEN inner ELSE Wrapped(inner))
       ELSE Found(Wrapped(data))

\* C19 as claimed: for an object payload the first applicable rule wins,
\* a raw that is a string, empty or not, selecting the raw rule.
C19_OrderWithEmptyRaw ==
    (Normalized /\ call.data.t = "obj") => call.found = ByOrder(call.data, TRUE)

\* C19: for an object payload the first applicable rule wins in the order
\* raw is a non-empty string, data is a non-empty string, transaction is
\* present, data is an object, else the whole payload is wrapped; a text
\* that cannot be parsed even after unescaping is a parse error, with no
\* fall-through; an empty string in raw or data is passed over.
C19_OrderOfRules ==
    (Normalized /\ call.data.t = "obj") => call.found = ByOrder(call.data, FALSE)

C19_Witness ==
    /\ Normalized
    /\ call.data.t = "obj"
    /\ Get(call.data, "raw").t = "str"
    /\ Truthy(Get(call.data, "transaction"))
    /\ ~call.found.threw
    /\ call.found.value = Wrapped(Tx(52))

\* C20: every transaction object projects to a log entry whose required
\* fields are set, with the defaults where the transaction has no value
\* for them.
C20_RequiredFieldsDefaulted ==
    (call.fn = "project" /\ call.done) =>
        LET transaction == Get(call.transactionData, "transaction")
            request == Get(transaction, "request")
            out == call.out
        IN /\ ~out.threw
           /\ \A val \in {out.clientIp, out.host, out.method, out.requestUrl} :
                    Truthy(val)
           /\ out.action \in {"blocked", "warning"}
           /\ out.severity \in {"LOW", "MEDIUM", "HIGH", "CRITICAL"}
           /\ Nullish(request) =>
                    /\ out.host = DefaultHost
                    /\ out.method = DefaultMethod
                    /\ out.requestUrl = DefaultRequestUrl

\* The transaction the normalizer found is gone after the sanitizer.
SanitizedAway ==
    /\ Normalized
    /\ ~call.found.threw
    /\ ~Truthy(Get(sanitizeJson(call.found.value), "transaction"))

\* C21 as claimed: a transaction that sanitizes to nothing still gives a
\* log entry, with nulls and defaults.
C21_SanitizeNeverAborts == SanitizedAway => ~call.out.threw

\* C21: the sanitizer itself never throws, and a field that sanitizes
\* away is replaced by null or its default; but a transaction that
\* sanitizes to nothing ends the record with the error "Failed to
\* sanitize transaction data", so the record is failed, not persisted.
C21_SanitizedAwayFails ==
    /\ SanitizedAway => call.out = Fail("Failed to sanitize transaction data")
    /\ (Normalized /\ ~call.found.threw)
            => sanitizeJson(call.found.value).t \in {"obj", "null"}
    /\ (/\ Normalized
        /\ ~call.found.threw
        /\ call.found.value = Wrapped(Tx(NUL)))
            => (~call.out.threw /\ call.out.clientIp = DefaultClientIp)

C21_Witness ==
    /\ SanitizedAway
    /\ call.found.value = Wrapped(NulStr)
    /\ call.out.threw

\* C22: the body posted to the agent carries the domain and the flag of
\* the request, its signature is made for exactly "domain|true" or
\* "domain|false", and it verifies for that domain and flag and for no
\* other domain or flag.
C22_SignatureBindsDomainAndFlag ==
    lastRequest.body # NoBody =>
        LET body == lastRequest.body
        IN /\ body.domain = lastRequest.domain
           /\ body.enabled = (lastRequest.enabled = "on")
           /\ body.signature =
                  signature(DomainChars(body.domain) \o <<124>> \o
                            (IF body.enabled THEN <<116, 114, 117, 101>>
                                             ELSE <<102, 97, 108, 115, 101>>))
           /\ \A d \in Domains : \A e \in BOOLEAN :
                  verify(dataToSign(d, e), body.signature)
                      <=> (d = body.domain /\ e = body.enabled)

C22_Witness ==
    /\ lastRequest.body # NoBody
    /\ lastRequest.body.domain = "b.com"
    /\ ~lastRequest.body.enabled
    /\ verify(<<98, 46, 99, 111, 109, 124, 102, 97, 108, 115, 101>>,
              lastRequest.body.signature)

\* C23: when the update of the landing row fails after the log was
\* created, the record is reported as failed, its flag stays false and
\* the log stays; a later create for the same record adds a second log.
C23_MarkFailureKeepsLog ==
    [][\A r \in Ids :
        /\ markFails'[r] = markFails[r] + 1 =>
              \E c \in Callers :
                /\ run[c].pc = "update" /\ Cur(c) = r
                /\ ~landing[r] /\ ~landing'[r]
                /\ logCount[r] >= 1 /\ logCount'[r] = logCount[r]
                /\ IF run[c].mode = "single"
                   THEN run'[c].result = "DbError"
                   ELSE /\ run'[c].failed = run[c].failed + 1
                        /\ run'[c].processed = run[c].processed
                        /\ run'[c].errors =
                              Append(run[c].errors, [id |-> r, error |-> "DbError"])
        /\ (markFails[r] >= 1 /\ logCount'[r] # logCount[r]) =>
              logCount'[r] = logCount[r] + 1 /\ logCount'[r] >= 2
      ]_vars

C23_Witness ==
    \E c \in Callers : \E r \in Ids :
        /\ run[c].pc = "update" /\ Cur(c) = r
        /\ markFails[r] = 1
        /\ logCount[r] = 2
        /\ ~landing[r]

CeilDiv(n, b) == (n + b - 1) \div b
InPage(c) == run[c].pc \in {"findUnique", "create", "update"}

\* C24: a run of processAll over a finite backlog ends; each page is
\* read at an offset that is a multiple of batchSize and grows by
\* batchSize per page, the run ends at the first page shorter than
\* batchSize, and the page being read is at most number
\* ceil(n / batchSize) + 1 for a backlog of n.
C24_ScanTerminates ==
    /\ \A c \in ManualCallers :
            (run[c].mode = "batch" /\ Active(c)) ~> ~Active(c)
    /\ [][\A c \in ManualCallers :
            LET rc == run[c] IN
            (rc.mode = "batch" /\ run'[c] # rc) =>
              /\ rc.pc = "findMany" =>
                    /\ rc.skip % rc.batchSize = 0
                    /\ (rc.skip \div rc.batchSize) + 1
                            <= CeilDiv(rc.backlog, rc.batchSize) + 1
                    /\ run'[c].pc \in {"done", "findUnique", "threw"}
                    /\ run'[c].pc = "done" =>
                            findMany(rc.skip, rc.batchSize) = <<>>
                    /\ run'[c].pc = "findUnique" =>
                            run'[c].records = findMany(rc.skip, rc.batchSize)
              /\ (InPage(c) /\ run'[c].pc \in {"findMany", "done"}) =>
                    /\ rc.idx = Len(rc.records)
                    /\ IF Len(rc.records) = rc.batchSize
                       THEN /\ run'[c].pc = "findMany"
                            /\ run'[c].skip = rc.skip + rc.batchSize
                       ELSE run'[c].pc = "done"
       ]_vars

\* The last page the bound allows is about to be read.
C24_Witness ==
    /\ run["manual"].mode = "batch"
    /\ run["manual"].pc = "findMany"
    /\ run["manual"].batchSize = 1
    /\ run["manual"].backlog = 2
    /\ run["manual"].skip = 2

ErrorIds(c) == {run[c].errors[i].id : i \in 1..Len(run[c].errors)}

\* C28: in one run of processAll by a single caller every record of the
\* page that was already handed on is processed or among the errors, and
\* no record still to be handed on is either of these: no record is
\* handed to single-record processing twice, and a record that failed on
\* an earlier page is not in a later page.
C28_NoRecordTwice ==
    \A c \in ManualCallers :
        (run[c].mode = "batch" /\ InPage(c)) =>
            LET rc == run[c] IN
            /\ \A i \in 1..Len(rc.records) : \A j \in 1..Len(rc.records) :
                    rc.records[i] = rc.records[j] => i = j
            /\ \A i \in 1..(rc.idx - 1) :
                    landing[rc.records[i]] \/ rc.records[i] \in ErrorIds(c)
            /\ \A i \in rc.idx..Len(rc.records) :
                    ~landing[rc.records[i]] /\ rc.records[i] \notin ErrorIds(c)
            /\ Cardinality(ErrorIds(c)) = Len(rc.errors)

\* A later page is being worked on after a record of an earlier page failed.
C28_Witness ==
    /\ run["manual"].mode = "batch"
    /\ run["manual"].pc = "findUnique"
    /\ run["manual"].batchSize = 1
    /\ run["manual"].skip = 1
    /\ run["manual"].errors # <<>>
    /\ run["manual"].errors[1].id = 1
    /\ Cur("manual") = 2

\* C29: with processAll run again and again, one run at a time, every
\* record that is not malformed is eventually marked processed, and a
\* finished run that started with such a record in its backlog and in
\* which only malformed records failed has marked at least one record.
C29_GoodRecordsGetProcessed ==
    /\ \A r \in Ids : (r \notin bad) ~> landing[r]
    /\ [](\A c \in ManualCallers :
            (/\ BatchDone(c)
             /\ run[c].backlog > Cardinality(bad)
             /\ ErrorIds(c) \subseteq bad)
                => run[c].processed >= 1)

\* A run has marked the record behind a malformed one that failed again.
C29_Witness ==
    /\ bad = {1}
    /\ BatchDone("manual")
    /\ run["manual"].backlog = 2
    /\ run["manual"].processed = 1
    /\ ErrorIds("manual") = {1}
    /\ run["manual"].errors[1].error = "Failed to parse transaction data"
    /\ landing[2] /\ ~landing[1]

\* C27: a run triggered by a tick clears the flag of the scheduler when it
\* ends, whether the batch completed, no record was found, or the count
\* or the batch run threw; the flag is set only while a run is in
\* flight, and a tick that finds no run in flight starts one.
C27_FlagClearedWhenRunEnds ==
    /\ [](ActiveCron = {} => ~isRunning)
    /\ [][\A c \in CronSlots :
            /\ (Active(c) /\ run'[c].pc \in Terminal) =>
                    /\ run'[c].pc \in {"done", "noRecords", "countFailed", "threw"}
                    /\ ~isRunning'
            /\ (~Active(c) /\ run'[c] # run[c]) =>
                    IF ActiveCron = {}
                    THEN run'[c].pc = "count" /\ isRunning'
                    ELSE run'[c].pc = "skipped" /\ isRunning' = isRunning
       ]_vars

\* A run that ended by an exception of the count or of the page query is
\* followed by a new run.
C27_Witness ==
    /\ bad = {}
    /\ faults = 1
    /\ \A r \in Ids : ~landing[r] /\ logCount[r] = 0
    /\ run["cron1"].pc = "count"
    /\ isRunning

\* C30: start() on a scheduler that already holds a timer installs a
\* second timer and leaves the first one running; stop() stops only the
\* timer it holds. While such a left-over timer exists ticks go on after
\* stop(), with the status reporting running = false; when no timer was
\* left over, which is the case when start() was called at most once
\* since the last stop(), no tick follows stop().
C30_StartLeavesOldTimer ==
    /\ []((task /\ orphans < MaxOrphans) =>
            ENABLED (SchedStart(TRUE) /\ task' /\ orphans' = orphans + 1))
    /\ [][/\ orphans' >= orphans
          /\ orphans' > orphans => (task /\ task')
          /\ (task /\ ~task') => orphans' = orphans
          /\ \A c \in CronSlots :
                (~task /\ run'[c].pc = "count" /\ run[c].pc # "count")
                    => orphans > 0
         ]_vars
    /\ []((~task /\ orphans > 0) =>
            /\ ~getStatus.running
            /\ ENABLED (\E c \in CronSlots : Tick(c, BATCH_SIZE)))
    /\ []((~task /\ orphans = 0) =>
            ~ENABLED (\E c \in CronSlots : Tick(c, BATCH_SIZE)))

\* A run triggered by a tick is in flight while the scheduler holds no
\* timer and reports running = false.
C30_Witness ==
    /\ ~task
    /\ orphans = 1
    /\ ~getStatus.running
    /\ run["cron1"].pc = "count"
    /\ isRunning

AgentFailed(b) == \E i \in 1..Len(b.results) : b.results[i] # "OK"

\* C25: in the bulk update the DomainWAFStatus rows are written only
\* after the agent was called for every item and every call succeeded;
\* when a call failed no row is written and the answer is 502.
C25_NoWriteOnAgentFailure ==
    /\ [][wafStatus' # wafStatus =>
            /\ bulk.pc = "upsert"
            /\ Len(bulk.results) = Len(bulk.items)
            /\ ~AgentFailed(bulk)
         ]_vars
    /\ []((bulk.pc = "done" /\ AgentFailed(bulk)) => bulk.response = 502)
    /\ [](bulk.pc = "upsert" => ~AgentFailed(bulk))
    /\ [](bulk.response = 502 => AgentFailed(bulk))

\* One of two calls failed, the answer is 502 and no row exists.
C25_Witness ==
    /\ bulk.pc = "done"
    /\ bulk.response = 502
    /\ bulk.results = <<"OK", "threw">>
    /\ \A d \in Domains : wafStatus[d] = "none"

\* C26: the loop of the bulk update calls the agent for every item, also
\* after a call failed; the agent changes only by the item of a call,
\* never back; so after a 502 the agent enforces the flag of each item
\* whose call succeeded while no row was written.
C26_AgentCalledForEveryDomain ==
    /\ [](bulk.pc \in {"upsert", "done"} => Len(bulk.results) = Len(bulk.items))
    /\ [][bulk.pc = "agent" =>
            /\ bulk'.pc = "agent" =>
                    /\ bulk'.idx \in {bulk.idx, bulk.idx + 1}
                    /\ bulk'.items = bulk.items
            /\ bulk'.idx = bulk.idx + 1 =>
                    Len(bulk'.results) = Len(bulk.results) + 1
            /\ (bulk' # bulk /\ bulk.idx < Len(bulk.items)) => bulk'.pc = "agent"
            /\ bulk' # bulk => wafStatus' = wafStatus
         ]_vars
    /\ [][agentState' # agentState =>
            /\ bulk.pc = "agent"
            /\ agentState' = [agentState EXCEPT
                    ![bulk.items[bulk.idx].domain] = bulk.items[bulk.idx].enabled]
         ]_vars
    /\ []((bulk.pc = "done" /\ bulk.response = 502) =>
            \A i \in 1..Len(bulk.items) :
                (/\ bulk.results[i] = "OK"
                 /\ \A j \in 1..Len(bulk.items) :
                        bulk.items[j].domain = bulk.items[i].domain => j = i)
                    => agentState[bulk.items[i].domain] = bulk.items[i].enabled)

\* The first call failed, the second was still made and switched the
\* agent; the answer is 502 and the row of the second domain is missing.
C26_Witness ==
    /\ bulk.pc = "done"
    /\ bulk.response = 502
    /\ bulk.results = <<"threw", "OK">>
    /\ bulk.items[2] = [domain |-> "b.com", enabled |-> "off"]
    /\ agentState["b.com"] = "off"
    /\ wafStatus["b.com"] = "none"

====
